---- MODULE Spec2Model ----
(***************************************************************************)
(* Model of lazy/load_config/backup.py: the three backup handlers, the     *)
(* BackupManager task groups and LoadManager.load, over a small file       *)
(* system.                                                                 *)
(*                                                                         *)
(* Representation.  A path (pathlib.Path) and a path string are both held  *)
(* as the sequence of their parts, as Path.parts gives them: an absolute   *)
(* path starts with the part "/".  A file's content is a record: plain     *)
(* text, bytes that are not UTF-8, or a JSON manifest.  A zip archive is a *)
(* function from entry names to contents (zipfile looks an entry up by its *)
(* exact name, the last one written under a name winning).                 *)
(* Directories are fixed: a file can be created exactly at the locations   *)
(* of DOMAIN fs and DOMAIN zips; everywhere else the parent directory does *)
(* not exist and open() fails.                                             *)
(***************************************************************************)
EXTENDS Integers, Sequences, FiniteSets, TLC

\* ---------------------------------------------------------------- bounds
MaxSources == 2     \* longest sources_list given to a handler directly
MaxEntries == 3     \* longest manifest of a hand-made archive
MaxBatch   == 2     \* longest list of archive paths given to LoadManager
MaxTasks   == 3     \* longest "tasks" list of a backup configuration
MaxOps     == 3     \* operations performed in one run of the model

\* ------------------------------------------------------------- pathlib
IsAbsolute(p) == Len(p) > 0 /\ p[1] = "/"

\* Path.__truediv__: an absolute right operand replaces the left one.
JoinPath(a, b) == IF IsAbsolute(b) THEN b ELSE a \o b

\* Path.name: the final part ("" for the empty path and for the root).
Name(p) == IF Len(p) = 0 \/ p = <<"/">> THEN "" ELSE p[Len(p)]

\* Path.relative_to is lexical: it compares parts and never follows "..".
IsRelativeTo(p, base) ==
    Len(p) >= Len(base) /\ SubSeq(p, 1, Len(base)) = base

RelativeTo(p, base) == SubSeq(p, Len(base) + 1, Len(p))

\* os.path.normpath: "x/.." collapses, a leading ".." of a relative path
\* stays, ".." above the root is dropped.
RECURSIVE NormParts(_, _)
NormParts(done, rest) ==
    IF rest = <<>> THEN done
    ELSE LET h == Head(rest) IN
         IF h = "." THEN NormParts(done, Tail(rest))
         ELSE IF h = ".."
              THEN IF Len(done) > 0 /\ done[Len(done)] \notin {"..", "/"}
                   THEN NormParts(SubSeq(done, 1, Len(done) - 1), Tail(rest))
                   ELSE IF Len(done) > 0 /\ done[Len(done)] = "/"
                        THEN NormParts(done, Tail(rest))
                        ELSE NormParts(Append(done, h), Tail(rest))
              ELSE NormParts(Append(done, h), Tail(rest))

NormPath(p) == NormParts(<<>>, p)

\* The file the operating system reaches through an absolute path.
Resolve(p) == NormPath(p)

\* ZipInfo.from_file: the entry name is the normalised arcname without its
\* leading separators.
ArcName(p) ==
    LET n == NormPath(p) IN IF IsAbsolute(n) THEN Tail(n) ELSE n

\* ---------------------------------------------------- fixed locations
\* sys._MEIPASS or the project root.
base_path == <<"/", "app">>

\* resource_path(relative_path) = base_path / "lazy" / "data" / relative_path
resource_path(relative_path) ==
    JoinPath(base_path \o <<"lazy", "data">>, relative_path)

BaseDir == resource_path(<<>>)

\* Path.home()
Home == <<"/", "home">>

\* BackupManager.output_dir
output_dir == <<"/", "out">>

MainfestName == <<"mainfest.json">>

\* LoadManager.lazy_configs
lazy_configs ==
    {"lazy_backup.json", "user_backup.json", "log_backup.json", "api_list.json"}

\* ------------------------------------------------------------ contents
Absent == [kind |-> "absent", text |-> "", files |-> <<>>]
Text(t) == [kind |-> "text", text |-> t, files |-> <<>>]
Bytes == [kind |-> "bytes", text |-> "xff", files |-> <<>>]
Json(files) == [kind |-> "json", text |-> "", files |-> files]

\* What an edit can put in a file.
Contents == {Text("v1"), Text("v2")}

NoFile == [kind |-> "absent", entries |-> <<>>]
NotZip == [kind |-> "notzip", entries |-> <<>>]
Zip(entries) == [kind |-> "zip", entries |-> entries]

\* Files of the model, by resolved absolute path.
FileA == BaseDir \o <<"a.json">>
FileB == BaseDir \o <<"b.json">>
FileU == BaseDir \o <<"user_backup.json">>
FileX == <<"/", "app", "lazy", "x.json">>
FileE == <<"/", "etc", "x.json">>
FileL == Home \o <<"logs", "lazy_cli.log">>
AllFiles == {FileA, FileB, FileU, FileX, FileE, FileL}

OutZip == output_dir \o <<"out.zip">>
InZip  == output_dir \o <<"in.zip">>
AllZips == {OutZip, InZip}

VARIABLES
    fs,             \* AllFiles -> content: the files on disk
    mainfest_file,  \* content of resource_path("mainfest.json") on disk
    zips,           \* AllZips -> archive: the archive files on disk
    last,           \* the operation that ran last: arguments and outcome
    snap,           \* the last successful manifest backup and the disk then
    ops,            \* operations performed so far
    pc,             \* "idle", or "group" while a task group is running
    tasks,          \* the configuration of the running group
    task_i,         \* position of the for loop in tasks
    attempted,      \* positions whose handler was constructed, in order
    failed,         \* positions whose backup() returned False, in order
    group_ret       \* outcome of the group: "true", "false", "raised"

archive_vars == <<fs, mainfest_file, zips, last, snap>>
group_vars == <<pc, tasks, task_i, attempted, failed, group_ret>>
vars == <<fs, mainfest_file, zips, last, snap, ops,
          pc, tasks, task_i, attempted, failed, group_ret>>

\* open(p) / zf.write(p) can read the file.
Readable(f, p) == Resolve(p) \in DOMAIN f /\ f[Resolve(p)].kind # "absent"

\* open(p, 'w') / ZipFile(p, 'w') can create or truncate the file.
CanCreate(f, p) == Resolve(p) \in DOMAIN f

IsUnder(p, dir) == Len(p) > Len(dir) /\ SubSeq(p, 1, Len(dir)) = dir

\* ------------------------------------------------------------ handlers
\* Entries a handler has written after zf.write of the first k paths, each
\* under the arcname relative to the base directory.
EntriesWritten(f, paths, k) ==
    LET arc(i) == ArcName(RelativeTo(paths[i], BaseDir))
        lastOf(n) == CHOOSE i \in 1..k :
                        /\ arc(i) = n
                        /\ \A j \in 1..k : arc(j) = n => j <= i
    IN  [n \in {arc(i) : i \in 1..k} |-> f[Resolve(paths[lastOf(n)])]]

\* Number of leading paths zf.write can read: the loop stops at the first
\* path that raises.
RECURSIVE ReadablePrefix(_, _, _)
ReadablePrefix(f, paths, i) ==
    IF i > Len(paths) \/ ~Readable(f, paths[i]) THEN i - 1
    ELSE ReadablePrefix(f, paths, i + 1)

\* The "files" list of the manifest: archive_path is the file's name,
\* original_path its path relative to the base directory.  No entry has
\* the key "archieve_path".
MainfestFiles(paths) ==
    [i \in 1..Len(paths) |->
        [archive_path |-> <<Name(paths[i])>>,
         original_path |-> RelativeTo(paths[i], BaseDir),
         has_archieve_path |-> FALSE]]

\* LazyFileHandler(paths, output).backup() and, line for line the same,
\* LazyUserFileHandler(paths, output).backup(): the outcome and the files
\* it leaves.  f is the disk, m the staged manifest file, z the archives.
LazyFileHandler_backup(f, m, z, raw_paths, output) ==
    LET paths == [i \in 1..Len(raw_paths) |-> resource_path(raw_paths[i])]
        k == ReadablePrefix(f, paths, 1)
        staged == Json(MainfestFiles(paths))
    IN  IF \E i \in 1..Len(paths) : ~IsRelativeTo(paths[i], BaseDir)
        THEN \* relative_to raises inside "with open(.., 'w')": the staged
             \* file is left truncated, the archive is never opened
             [ok |-> FALSE, mainfest_file |-> Text(""), zips |-> z]
        ELSE IF ~CanCreate(z, output)
        THEN [ok |-> FALSE, mainfest_file |-> staged, zips |-> z]
        ELSE IF k < Len(paths)
        THEN \* zf.write raises; leaving the with block closes the archive
             \* with the entries written so far
             [ok |-> FALSE, mainfest_file |-> staged,
              zips |-> [z EXCEPT ![Resolve(output)] =
                            Zip(EntriesWritten(f, paths, k))]]
        ELSE [ok |-> TRUE, mainfest_file |-> staged,
              zips |-> [z EXCEPT ![Resolve(output)] =
                  Zip([n \in DOMAIN EntriesWritten(f, paths, k)
                                \cup {MainfestName} |->
                        IF n = MainfestName THEN staged
                        ELSE EntriesWritten(f, paths, k)[n]])]]

LogNames == {"lazy_cli.log"}

\* logFileHandler.__init__: the files matching lazy_cli.log* directly under
\* each directory, the directories taken relative to the home directory.
log_paths(f, raw_paths) ==
    {p \in {JoinPath(Home, raw_paths[i]) \o <<n>> :
                i \in 1..Len(raw_paths), n \in LogNames} : Readable(f, p)}

\* logFileHandler(paths, output).backup(): no manifest, every log file
\* under its own path.
logFileHandler_backup(f, m, z, raw_paths, output) ==
    IF ~CanCreate(z, output)
    THEN [ok |-> FALSE, mainfest_file |-> m, zips |-> z]
    ELSE [ok |-> TRUE, mainfest_file |-> m,
          zips |-> [z EXCEPT ![Resolve(output)] =
              Zip([n \in {ArcName(p) : p \in log_paths(f, raw_paths)} |->
                     f[Resolve(CHOOSE p \in log_paths(f, raw_paths) :
                                  ArcName(p) = n)]])]]

HandlerNames == {"logFileHandler", "LazyFileHandler", "LazyUserFileHandler"}

\* cls(sources_list, output).backup() for a handler class.
HandlerBackup(type, f, m, z, raw_paths, output) ==
    IF type = "logFileHandler"
    THEN logFileHandler_backup(f, m, z, raw_paths, output)
    ELSE LazyFileHandler_backup(f, m, z, raw_paths, output)

\* ------------------------------------------------------------- records
Last(op, ok, args, force, output, opened, written, prev) ==
    [op |-> op, ok |-> ok, args |-> args, force |-> force,
     output |-> output, opened |-> opened, written |-> written,
     prev |-> prev]

InitFs == [p \in AllFiles |-> Text("v1")]

NoSnap == [made |-> FALSE, output |-> <<>>, paths |-> <<>>, fs |-> InitFs]

\* What a backup leaves behind, with the record of it.
BackupEffect(type, raw_paths, output) ==
    LET r == HandlerBackup(type, fs, mainfest_file, zips, raw_paths, output)
        prev == IF CanCreate(zips, output) THEN zips[Resolve(output)]
                ELSE NoFile
    IN  /\ mainfest_file' = r.mainfest_file
        /\ zips' = r.zips
        /\ UNCHANGED fs
        /\ last' = Last("backup", r.ok, raw_paths, type # "logFileHandler",
                        output, <<>>, <<>>, prev)
        /\ snap' = IF r.ok /\ type # "logFileHandler"
                   THEN [made |-> TRUE, output |-> Resolve(output),
                         paths |-> [i \in 1..Len(raw_paths) |->
                                       resource_path(raw_paths[i])],
                         fs |-> fs]
                   ELSE IF snap.made /\ r.zips[snap.output] # zips[snap.output]
                        THEN NoSnap
                        ELSE snap

\* ------------------------------------------------------------- inputs
RECURSIVE SeqsUpTo(_, _)
SeqsUpTo(S, n) ==
    IF n = 0 THEN {<<>>}
    ELSE SeqsUpTo(S, n - 1) \cup
         {Append(s, x) : s \in {t \in SeqsUpTo(S, n - 1) : Len(t) = n - 1},
                         x \in S}

\* sources_list entries: files under the base directory, one that leaves it
\* through "..", one absolute path elsewhere, and one that does not exist.
SourceInputs ==
    {<<"a.json">>, <<"b.json">>,
     <<"..", "x.json">>, <<"/", "etc", "x.json">>, <<"zz.json">>}

Init ==
    /\ fs = InitFs
    /\ mainfest_file = Absent
    /\ zips = [z \in AllZips |-> NoFile]
    /\ last = Last("init", TRUE, <<>>, FALSE, <<>>, <<>>, <<>>, NoFile)
    /\ snap = NoSnap
    /\ ops = 0
    /\ pc = "idle"
    /\ tasks = <<>>
    /\ task_i = 0
    /\ attempted = <<>>
    /\ failed = <<>>
    /\ group_ret = "none"

\* ---------------------------------------------------------- LoadManager
\* LoadManager._is_valid(path): the name of the path is not a lazy config.
_is_valid(path) == Name(path) \notin lazy_configs

\* The loop over mainfest["files"] from entry i on: entries is the opened
\* archive, f the disk so far, written the files written so far.  Every
\* exception leaves the loop (ok = FALSE) with what was written before it.
RECURSIVE ExtractFiles(_, _, _, _, _, _)
ExtractFiles(files, i, entries, f, force, written) ==
    IF i > Len(files) THEN [ok |-> TRUE, fs |-> f, written |-> written]
    ELSE LET file == files[i]
             target == JoinPath(BaseDir, file.original_path)
         IN
         IF ~force /\ ~_is_valid(file.archive_path)
         THEN ExtractFiles(files, i + 1, entries, f, force, written)
         ELSE IF file.original_path \notin DOMAIN entries   \* zf.read: KeyError
         THEN [ok |-> FALSE, fs |-> f, written |-> written]
         ELSE IF entries[file.original_path].kind = "bytes" \* decode('utf-8')
         THEN [ok |-> FALSE, fs |-> f, written |-> written]
         ELSE IF ~CanCreate(f, target)                      \* open(.., 'w')
         THEN [ok |-> FALSE, fs |-> f, written |-> written]
         ELSE LET f2 == [f EXCEPT ![Resolve(target)] =
                                        entries[file.original_path]]
                  w2 == Append(written, Resolve(target))
              IN  IF ~file.has_archieve_path     \* file["archieve_path"]
                  THEN [ok |-> FALSE, fs |-> f2, written |-> w2]
                  ELSE ExtractFiles(files, i + 1, entries, f2, force, w2)

\* The body of the try block for one archive path.
LoadArchive(z, path, f, force, written) ==
    LET a == IF Resolve(path) \in DOMAIN z THEN z[Resolve(path)] ELSE NoFile
    IN  IF a.kind # "zip"                          \* ZipFile(path, 'r')
        THEN [ok |-> FALSE, fs |-> f, written |-> written]
        ELSE IF MainfestName \notin DOMAIN a.entries \* zf.read("mainfest.json")
        THEN [ok |-> FALSE, fs |-> f, written |-> written]
        ELSE IF a.entries[MainfestName].kind # "json" \* json.loads, ["files"]
        THEN [ok |-> FALSE, fs |-> f, written |-> written]
        ELSE ExtractFiles(a.entries[MainfestName].files, 1, a.entries,
                          f, force, written)

\* A load that logs the failure of an archive and goes on to the next.
ReturnOnFailure_never(ok) == FALSE

\* The except block of load returns False as soon as an archive has failed.
ReturnOnFailure(ok) == ~ok

\* LoadManager(paths, force).load() from path i on.  opened records every
\* archive path the loop reached, with the outcome of its try block.
RECURSIVE LoadPaths(_, _, _, _, _, _, _)
LoadPaths(z, paths, i, f, force, opened, written) ==
    IF i > Len(paths)
    THEN [ok |-> \A k \in 1..Len(opened) : ~ReturnOnFailure(opened[k].ok),
          fs |-> f, opened |-> opened, written |-> written]
    ELSE LET r == LoadArchive(z, paths[i], f, force, written)
             o2 == Append(opened, [path |-> paths[i], ok |-> r.ok])
         IN  IF ReturnOnFailure(r.ok)
             THEN [ok |-> FALSE, fs |-> r.fs, opened |-> o2,
                   written |-> r.written]
             ELSE LoadPaths(z, paths, i + 1, r.fs, force, o2, r.written)

load(z, paths, f, force) == LoadPaths(z, paths, 1, f, force, <<>>, <<>>)

LoadEffect(paths, force) ==
    LET r == load(zips, paths, fs, force)
    IN  /\ fs' = r.fs
        /\ last' = Last("load", r.ok, paths, force, <<>>, r.opened,
                        r.written, NoFile)
        /\ UNCHANGED <<mainfest_file, zips, snap>>

\* ------------------------------------------------- archive operations
\* The user or another program changes or deletes a file of the base
\* directory.
EditableFiles == {FileA, FileB}

Edit ==
    \E p \in EditableFiles, c \in Contents \cup {Absent} :
        /\ pc = "idle" /\ ops < MaxOps
        /\ fs[p] # c
        /\ fs' = [fs EXCEPT ![p] = c]
        /\ last' = Last("edit", TRUE, <<>>, FALSE, <<>>, <<>>, <<>>, NoFile)
        /\ ops' = ops + 1
        /\ UNCHANGED <<mainfest_file, zips, snap>>
        /\ UNCHANGED group_vars

\* LazyFileHandler(sources_list, output).backup() or
\* LazyUserFileHandler(sources_list, output).backup(), called directly.
Backup ==
    \E type \in {"LazyFileHandler", "LazyUserFileHandler"},
       raw_paths \in SeqsUpTo(SourceInputs, MaxSources) \ {<<>>} :
        /\ pc = "idle" /\ ops < MaxOps
        /\ BackupEffect(type, raw_paths, OutZip)
        /\ ops' = ops + 1
        /\ UNCHANGED group_vars

\* LoadManager([archive], force).load() on the archive the backups write.
Restore ==
    \E force \in BOOLEAN :
        /\ pc = "idle" /\ ops < MaxOps
        /\ LoadEffect(<<OutZip>>, force)
        /\ ops' = ops + 1
        /\ UNCHANGED group_vars

\* ------------------------------------------ archives from elsewhere
\* Manifest entries of an archive that was not made by a handler: plain
\* ones, a denylisted file, an entry whose archive_path hides a denylisted
\* original_path, and two that leave the base directory.
EntryInputs ==
    {[archive_path |-> <<"a.json">>, original_path |-> <<"a.json">>],
     [archive_path |-> <<"b.json">>, original_path |-> <<"b.json">>],
     [archive_path |-> <<"user_backup.json">>,
      original_path |-> <<"user_backup.json">>],
     [archive_path |-> <<"a.json">>, original_path |-> <<"user_backup.json">>],
     [archive_path |-> <<"x.json">>, original_path |-> <<"..", "x.json">>],
     [archive_path |-> <<"x.json">>,
      original_path |-> <<"/", "etc", "x.json">>]}

\* An archive holding every file its manifest lists, each with the content
\* "v2"; key says whether the entries also carry the key "archieve_path".
MadeArchive(m, key) ==
    Zip([n \in {m[i].original_path : i \in 1..Len(m)} \cup {MainfestName} |->
            IF n = MainfestName
            THEN Json([i \in 1..Len(m) |->
                        [archive_path |-> m[i].archive_path,
                         original_path |-> m[i].original_path,
                         has_archieve_path |-> key]])
            ELSE Text("v2")])

\* Someone puts an archive at the input path, once.
Provide ==
    \E m \in SeqsUpTo(EntryInputs, MaxEntries), key \in BOOLEAN :
        /\ pc = "idle"
        /\ zips[InZip] = NoFile
        /\ zips' = [zips EXCEPT ![InZip] = MadeArchive(m, key)]
        /\ last' = Last("provide", TRUE, <<>>, FALSE, <<>>, <<>>, <<>>, NoFile)
        /\ snap' = NoSnap
        /\ UNCHANGED <<fs, mainfest_file, ops>>
        /\ UNCHANGED group_vars

\* LoadManager([archive], force).load() on the provided archive.
LoadOne ==
    \E force \in BOOLEAN :
        /\ pc = "idle"
        /\ LoadEffect(<<InZip>>, force)
        /\ UNCHANGED ops
        /\ UNCHANGED group_vars

NextRestore == Provide \/ LoadOne

SpecRestore == Init /\ [][NextRestore]_vars

\* Archive files of a batch: none, not a zip file, a zip without manifest,
\* a zip whose manifest is not JSON, a manifest listing a file the archive
\* lacks, a bytes entry, and archives as the handlers make them (without the
\* key "archieve_path") and with the key.
BatchArchives ==
    LET a == [archive_path |-> <<"a.json">>, original_path |-> <<"a.json">>]
        b == [archive_path |-> <<"b.json">>, original_path |-> <<"b.json">>]
    IN  {NoFile, NotZip,
         Zip([n \in {<<"a.json">>} |-> Text("v2")]),
         Zip([n \in {<<"a.json">>, MainfestName} |-> Text("v2")]),
         Zip([n \in {MainfestName} |-> MadeArchive(<<a>>, TRUE).entries[n]]),
         Zip([n \in {<<"a.json">>, MainfestName} |->
                IF n = MainfestName
                THEN MadeArchive(<<a>>, TRUE).entries[n] ELSE Bytes]),
         MadeArchive(<<>>, TRUE),
         MadeArchive(<<a>>, FALSE),
         MadeArchive(<<a>>, TRUE),
         MadeArchive(<<b>>, TRUE)}

MissingZip == output_dir \o <<"missing.zip">>

\* Someone puts an archive file at one of the batch's paths, before the
\* archives are loaded.
ProvideBatch ==
    \E z \in AllZips, a \in BatchArchives :
        /\ pc = "idle"
        /\ last.op # "load"
        /\ zips[z] # a
        /\ zips' = [zips EXCEPT ![z] = a]
        /\ last' = Last("provide", TRUE, <<>>, FALSE, <<>>, <<>>, <<>>, NoFile)
        /\ snap' = NoSnap
        /\ UNCHANGED <<fs, mainfest_file, ops>>
        /\ UNCHANGED group_vars

\* LoadManager(paths, force).load() on a batch of archive paths.
LoadBatch ==
    \E paths \in SeqsUpTo(AllZips \cup {MissingZip}, MaxBatch),
       force \in BOOLEAN :
        /\ pc = "idle"
        /\ LoadEffect(paths, force)
        /\ UNCHANGED ops
        /\ UNCHANGED group_vars

NextBatch == ProvideBatch \/ LoadBatch

SpecBatch == Init /\ [][NextBatch]_vars

\* -------------------------------------------------------- BackupManager
\* BaseConfig.load_config: the parsed file, or the empty mapping when the
\* file is missing or is not JSON.
EmptyMapping == [has_tasks |-> FALSE, tasks |-> <<>>]

load_config(file) ==
    IF file.kind = "json"
    THEN [has_tasks |-> file.has_tasks, tasks |-> file.tasks]
    ELSE EmptyMapping

\* Names bound in the module besides the three handlers: imports, helpers
\* and the other classes.  globals().get finds them too.
OtherGlobals ==
    {"abc", "json", "logging", "sys", "zipfile", "datetime", "Path", "List",
     "lazyBackupConfig", "logBackupConfig", "userBackupConfig", "logger",
     "resource_path", "BaseFileBackupHandler", "BackupManager", "LoadManager"}

\* globals().get(class_name): a handler class, another object of the
\* module, or None.
globals_get(class_name) ==
    IF class_name \in HandlerNames THEN "handler"
    ELSE IF class_name \in OtherGlobals THEN "other"
    ELSE "None"

\* A group that goes on to the next task after a failed backup.
BreakOnFailure_never(ok) == FALSE

\* "if not instance.backup(): break"
BreakOnFailure(ok) == ~ok

Task(type, sources_list, output_name) ==
    [type |-> type, sources_list |-> sources_list, output_name |-> output_name]

\* Tasks of a configuration: handlers that succeed, handlers that fail (a
\* source that does not exist, an output directory that does not exist), a
\* type that names nothing and a type that names another class.
TaskInputs ==
    {Task("LazyFileHandler", <<<<"a.json">>>>, <<"out.zip">>),
     Task("LazyFileHandler", <<<<"zz.json">>>>, <<"out.zip">>),
     Task("LazyUserFileHandler", <<<<"b.json">>>>, <<"out.zip">>),
     Task("LazyUserFileHandler", <<<<"a.json">>>>, <<"nodir", "out.zip">>),
     Task("logFileHandler", <<<<"logs">>>>, <<"out.zip">>),
     Task("logFileHandler", <<<<"logs">>>>, <<"nodir", "out.zip">>),
     Task("NoSuchHandler", <<<<"a.json">>>>, <<"out.zip">>),
     Task("LoadManager", <<<<"a.json">>>>, <<"out.zip">>)}

\* What the configuration file of a group can be.
ConfigFiles ==
    {[kind |-> "missing", has_tasks |-> FALSE, tasks |-> <<>>],
     [kind |-> "corrupt", has_tasks |-> FALSE, tasks |-> <<>>],
     [kind |-> "json", has_tasks |-> FALSE, tasks |-> <<>>]}
    \cup {[kind |-> "json", has_tasks |-> TRUE, tasks |-> t] :
             t \in SeqsUpTo(TaskInputs, MaxTasks)}

GroupNames == {"run_for_user", "run_for_lazy", "run_for_log"}

\* BackupManager().run_for_user(), run_for_lazy() or run_for_log() is
\* called: the three methods differ in the configuration they read and in
\* their log message.  config["tasks"] raises KeyError on a mapping
\* without the key.  Backups never change the source files, so a behaviour
\* follows one call.
RunGroup ==
    \E name \in GroupNames, file \in ConfigFiles :
        LET config == load_config(file) IN
        /\ pc = "idle" /\ group_ret = "none"
        /\ IF config.has_tasks
           THEN /\ pc' = name
                /\ tasks' = config.tasks
                /\ task_i' = 1
                /\ group_ret' = "none"
           ELSE /\ pc' = "idle"
                /\ tasks' = <<>>
                /\ task_i' = 0
                /\ group_ret' = "raised"
        /\ attempted' = <<>>
        /\ failed' = <<>>
        /\ UNCHANGED <<fs, mainfest_file, zips, last, snap, ops>>

\* One pass of the for loop over the tasks.
TaskStep ==
    /\ pc \in GroupNames /\ task_i <= Len(tasks)
    /\ LET task == tasks[task_i]
           output == JoinPath(output_dir, task.output_name)
           cls == globals_get(task.type)
           r == HandlerBackup(task.type, fs, mainfest_file, zips,
                              task.sources_list, output)
       IN  IF cls = "None"
           THEN \* logger.warning, next task
                /\ task_i' = task_i + 1
                /\ UNCHANGED <<pc, attempted, failed, group_ret>>
                /\ UNCHANGED <<fs, mainfest_file, zips, last, snap>>
           ELSE IF cls = "other"
           THEN \* cls(sources_list, output) or instance.backup() raises
                /\ attempted' = Append(attempted, task_i)
                /\ pc' = "idle"
                /\ group_ret' = "raised"
                /\ UNCHANGED <<task_i, failed>>
                /\ UNCHANGED <<fs, mainfest_file, zips, last, snap>>
           ELSE /\ attempted' = Append(attempted, task_i)
                /\ BackupEffect(task.type, task.sources_list, output)
                /\ IF BreakOnFailure(r.ok)
                   THEN /\ failed' = Append(failed, task_i)
                        /\ pc' = "idle"
                        /\ group_ret' = "false"
                        /\ UNCHANGED task_i
                   ELSE /\ failed' = IF r.ok THEN failed
                                     ELSE Append(failed, task_i)
                        /\ task_i' = task_i + 1
                        /\ UNCHANGED <<pc, group_ret>>
    /\ UNCHANGED <<tasks, ops>>

\* The else branch of the for loop: every task was passed, return True.
GroupReturn ==
    /\ pc \in GroupNames /\ task_i > Len(tasks)
    /\ pc' = "idle"
    /\ group_ret' = "true"
    /\ UNCHANGED <<tasks, task_i, attempted, failed, ops>>
    /\ UNCHANGED <<fs, mainfest_file, zips, last, snap>>

NextGroup == RunGroup \/ TaskStep \/ GroupReturn

SpecGroup == Init /\ [][NextGroup]_vars

Next == Edit \/ Backup \/ Restore

Spec == Init /\ [][Next]_vars

\* ------------------------------------------------------------ properties
Range(q) == {q[k] : k \in 1..Len(q)}

\* The file a manifest entry is restored to.
Target(file) == Resolve(JoinPath(BaseDir, file.original_path))

\* C1: after a successful manifest backup of files under the base directory
\* and a forced load of the archive it made, every one of those files has
\* the content it had when the backup ran.
RoundTrip ==
    (/\ last.op = "load" /\ last.force
     /\ snap.made /\ last.args = <<snap.output>>
     /\ \A i \in 1..Len(snap.paths) : IsUnder(Resolve(snap.paths[i]), BaseDir))
    => \A i \in 1..Len(snap.paths) :
          fs[Resolve(snap.paths[i])] = snap.fs[Resolve(snap.paths[i])]

\* C2: an unforced load of an archive whose manifest lists a denylisted
\* entry leaves that entry unwritten and restores every other entry of the
\* manifest.
DenylistSkipsOnlyDenied ==
    LET a == zips[InZip]
        m == a.entries[MainfestName].files
    IN  (/\ last.op = "load" /\ ~last.force /\ last.args = <<InZip>>
         /\ a.kind = "zip"
         /\ \E i \in 1..Len(m) : ~_is_valid(m[i].archive_path)
         /\ \A i \in 1..Len(m) :
               /\ Name(m[i].archive_path) = Name(m[i].original_path)
               /\ IsUnder(Target(m[i]), BaseDir))
        => /\ \A i \in 1..Len(m) :
                _is_valid(m[i].archive_path)
                  => fs[Target(m[i])] = a.entries[m[i].original_path]
           /\ \A i \in 1..Len(m) :
                ~_is_valid(m[i].archive_path)
                  => Target(m[i]) \notin Range(last.written)

\* The archive file at a path.
ArchiveAt(path) ==
    IF Resolve(path) \in DOMAIN zips THEN zips[Resolve(path)] ELSE NoFile

ListsTarget(a, w) ==
    /\ a.kind = "zip"
    /\ MainfestName \in DOMAIN a.entries
    /\ a.entries[MainfestName].kind = "json"
    /\ \E i \in 1..Len(a.entries[MainfestName].files) :
          Target(a.entries[MainfestName].files[i]) = w

GroupShortCircuit ==
    /\ \A k \in 1..(Len(attempted) - 1) : attempted[k] < attempted[k + 1]
    /\ \A j \in 1..Len(tasks) :
          (j < task_i /\ tasks[j].type \in HandlerNames) => j \in Range(attempted)
    /\ failed # <<>> =>
          /\ \A k \in 1..Len(attempted) : attempted[k] <= failed[1]
          /\ pc = "idle" /\ group_ret = "false"

GroupShortCircuitWitness ==
    /\ pc = "idle" /\ group_ret = "false"
    /\ Len(tasks) = 3
    /\ attempted = <<1, 2>> /\ failed = <<2>>
    /\ tasks[3].type \in HandlerNames

\* C5: a manifest backup with a source that is not inside the base
\* directory returns False and leaves the destination as it was.
PathContainment ==
    (/\ last.op = "backup" /\ last.force
     /\ \E i \in 1..Len(last.args) :
           ~IsUnder(Resolve(resource_path(last.args[i])), BaseDir))
    => /\ ~last.ok
       /\ zips[Resolve(last.output)] = last.prev

\* C6: a task whose type is not one of the three handlers is passed over:
\* nothing is constructed for it, and the group returns True unless a
\* backup() returned False.
UnknownHandlerSkipped ==
    (/\ pc = "idle" /\ group_ret # "none"
     /\ \E j \in 1..Len(tasks) : tasks[j].type \notin HandlerNames)
    => /\ \A k \in 1..Len(attempted) :
             tasks[attempted[k]].type \in HandlerNames
       /\ group_ret \in {"true", "false"}
       /\ failed = <<>> => group_ret = "true"

\* C7: no group call ends with an exception.
NeverRaises == group_ret # "raised"

\* C8: a manifest backup that fails on a source it cannot read, after it
\* has read the sources before it, leaves the destination exactly as it was
\* before the call.
NoPartialArchive ==
    (/\ last.op = "backup" /\ last.force /\ ~last.ok
     /\ Readable(fs, resource_path(last.args[1]))
     /\ \A i \in 1..Len(last.args) :
           IsRelativeTo(resource_path(last.args[i]), BaseDir)
     /\ \E i \in 1..Len(last.args) :
           ~Readable(fs, resource_path(last.args[i])))
    => zips[Resolve(last.output)] = last.prev

\* C9: an unforced load writes no file of the base directory whose name is
\* denylisted.
NeverWritesDenylisted ==
    (last.op = "load" /\ ~last.force)
    => \A k \in 1..Len(last.written) :
          ~(IsUnder(last.written[k], BaseDir)
            /\ Name(last.written[k]) \in lazy_configs)

\* C10: every file a load writes lies under the base directory.
RestoreStaysInside ==
    last.op = "load"
    => \A k \in 1..Len(last.written) : IsUnder(last.written[k], BaseDir)

====
